---- MODULE Spec2Model ----
(***************************************************************************)
(* The Background reactor lifecycle of src/reactor/background.rs: the      *)
(* atomic shutdown word, the completion waker slot, the owner of the       *)
(* Background handle (forget / Drop / block_on(Shutdown)) and the reactor  *)
(* thread's run loop, one action per atomic step.                          *)
(***************************************************************************)
EXTENDS Naturals, FiniteSets, Sequences

VARIABLES
    shutdown,        \* Shared.shutdown: the atomic state word
    shutdown_task,   \* Shared.shutdown_task: the AtomicWaker slot
    woken,           \* wakers whose wake() has been delivered and not yet consumed
    wakeup_pending,  \* the multiplexer's force-interrupt readiness set by Handle.wakeup()
    rpc,             \* position of the reactor thread inside run()
    rlocal,          \* run()'s local `shutdown`: the value of its last load
    reactor_alive,   \* the Reactor value owned by run() has not been dropped
    registered,      \* number of resources registered with the Reactor
    inner,           \* Background.inner: "Some" or "None"
    holder,          \* where the Inner value is: "background" (Background.inner),
                     \* "block_on" (the Shutdown driven by Drop), "future" (a Shutdown
                     \* handed out), "forgotten" (destroyed by forget), "released"
                     \* (destroyed when Drop returns)
    pc,              \* position of each caller thread (thread 0 owns the Background)
    curr,            \* shutdown_now()'s local `curr`, per caller
    lw,              \* the waker the owner passed to its current / last poll
    \* -- one registered socket, its readiness bridge and the tasks using it --
    ready,           \* the bridge's sticky readiness flag, per direction
    bwaker,          \* the bridge's waker slot, per direction
    events,          \* edge notifications the kernel has raised and turn has not yet seen
    notified,        \* tasks whose waker has been woken and that have not polled since
    tpc,             \* position of each task inside poll_recv_from / poll_send_to
    tdir,            \* direction of the operation each task is (or was last) polling
    sysres,          \* what each task's last system call returned
    tres,            \* what each task's last poll returned
    got,             \* the bytes received from the socket, in the order received
    wire,            \* bytes written by the peer and not yet received
    written,         \* how many bytes of the message the peer has written
    peer_closed,     \* the peer has closed its end
    outfree          \* free space of the socket's send buffer

\* The state of background.rs.
bgvars == <<shutdown, shutdown_task, woken, wakeup_pending, rpc, rlocal,
            reactor_alive, registered, inner, holder, pc, curr, lw>>

\* The state of the socket, its bridge and its tasks.
bvars == <<ready, bwaker, events, notified, tpc, tdir, sysres, tres, got,
           wire, written, peer_closed, outfree>>

vars == <<shutdown, shutdown_task, woken, wakeup_pending, rpc, rlocal,
          reactor_alive, registered, inner, holder, pc, curr, lw,
          ready, bwaker, events, notified, tpc, tdir, sysres, tres, got,
          wire, written, peer_closed, outfree>>

\* ---- bounds -------------------------------------------------------------
NumExtra   == 1    \* threads besides the owner that may call Inner::shutdown_now
NumWakers  == 2    \* distinct wakers a poll may be given
MaxRes     == 2    \* resources registered at once
NumTasks   == 2    \* tasks polling the socket
MsgLen     == 1    \* bytes of the message the peer writes
MaxOut     == 1    \* capacity of the socket's send buffer

\* ---- program constants --------------------------------------------------
RUNNING       == 0
SHUTDOWN_IDLE == 1
SHUTDOWN_NOW  == 2
SHUTDOWN      == 3

Owner   == 0
Threads == 0..NumExtra
Extras  == Threads \ {Owner}
Wakers  == 1..NumWakers
NoWaker == 0

States == {RUNNING, SHUTDOWN_IDLE, SHUTDOWN_NOW, SHUTDOWN}

Tasks == 1..NumTasks
Dirs  == {"read", "write"}

\* A fresh socket of a connected pair, just registered: nothing to read, room
\* to write (which the multiplexer reports once), no flag set, no waker stored.
InitBridge ==
    /\ ready = [d \in Dirs |-> FALSE]
    /\ bwaker = [d \in Dirs |-> NoWaker]
    /\ events = {"write"}
    /\ notified = {}
    /\ tpc = [t \in Tasks |-> "idle"]
    /\ tdir = [t \in Tasks |-> "none"]
    /\ sysres = [t \in Tasks |-> "none"]
    /\ tres = [t \in Tasks |-> "none"]
    /\ got = <<>>
    /\ wire = <<>>
    /\ written = 0
    /\ peer_closed = FALSE
    /\ outfree = MaxOut

\* ---- construction: Background::new ---------------------------------------
Init ==
    /\ shutdown = RUNNING
    /\ shutdown_task = NoWaker
    /\ woken = {}
    /\ wakeup_pending = FALSE
    /\ rpc = "load"
    /\ rlocal = RUNNING
    /\ reactor_alive = TRUE
    /\ registered = 0
    /\ inner = "Some"
    /\ holder = "background"
    /\ pc = [t \in Threads |-> IF t = Owner THEN "live" ELSE "idle"]
    /\ curr = [t \in Threads |-> RUNNING]
    /\ lw = NoWaker
    /\ InitBridge

\* ---- Handle / Reactor (reactor/mod.rs), as the design describes them ------

\* Reactor::is_idle: true iff no resources are registered.
is_idle == registered = 0

\* Handle::register: adds a resource; fails once the Reactor is gone.
register ==
    /\ UNCHANGED bvars
    /\ reactor_alive
    /\ registered < MaxRes
    /\ registered' = registered + 1
    /\ UNCHANGED <<shutdown, shutdown_task, woken, wakeup_pending, rpc, rlocal,
                   reactor_alive, inner, holder, pc, curr, lw>>

\* Dropping a registered resource removes its registration.
deregister ==
    /\ UNCHANGED bvars
    /\ registered > 0
    /\ registered' = registered - 1
    /\ UNCHANGED <<shutdown, shutdown_task, woken, wakeup_pending, rpc, rlocal,
                   reactor_alive, inner, holder, pc, curr, lw>>

\* ---- Background::forget ---------------------------------------------------
\* A faulty variant: the Inner is left in place, so the Drop that ends
\* forget(self) finds Some.
forget_keeps_inner ==
    /\ UNCHANGED bvars
    /\ pc[Owner] = "live"
    /\ pc' = [pc EXCEPT ![Owner] = "forgot"]
    /\ UNCHANGED <<shutdown, shutdown_task, woken, wakeup_pending, rpc, rlocal,
                   reactor_alive, registered, inner, holder, curr, lw>>

\* drop(self.inner.take()): the Inner is destroyed, nothing else is touched.
forget ==
    /\ UNCHANGED bvars
    /\ pc[Owner] = "live"
    /\ inner' = "None"
    /\ holder' = "forgotten"
    /\ pc' = [pc EXCEPT ![Owner] = "forgot"]
    /\ UNCHANGED <<shutdown, shutdown_task, woken, wakeup_pending, rpc, rlocal,
                   reactor_alive, registered, curr, lw>>

\* ---- Drop for Background --------------------------------------------------
\* match self.inner.take() { Some(i) => i, None => return }; then shutdown_now.
drop_background ==
    /\ UNCHANGED bvars
    /\ pc[Owner] \in {"live", "forgot"}
    /\ IF inner = "None"
         THEN /\ pc' = [pc EXCEPT ![Owner] = "returned"]
              /\ UNCHANGED <<inner, holder>>
         ELSE /\ inner' = "None"
              /\ holder' = "block_on"
              /\ pc' = [pc EXCEPT ![Owner] = "sn_load"]
    /\ UNCHANGED <<shutdown, shutdown_task, woken, wakeup_pending, rpc, rlocal,
                   reactor_alive, registered, curr, lw>>

\* ---- Inner::shutdown_now --------------------------------------------------
\* let mut curr = self.shared.shutdown.load(SeqCst);
shutdown_now_load(t) ==
    /\ UNCHANGED bvars
    /\ pc[t] = "sn_load"
    /\ curr' = [curr EXCEPT ![t] = shutdown]
    /\ pc' = [pc EXCEPT ![t] = "sn_loop"]
    /\ UNCHANGED <<shutdown, shutdown_task, woken, wakeup_pending, rpc, rlocal,
                   reactor_alive, registered, inner, holder, lw>>

\* Where a caller goes when shutdown_now returns: the owner, inside Drop, goes
\* on to block_on(Shutdown { inner }); any other caller is done.
AfterShutdownNow(t) == IF t = Owner THEN "poll" ELSE "idle"

\* A faulty variant: a plain store in place of the compare-and-swap.
shutdown_now_store(t) ==
    /\ UNCHANGED bvars
    /\ pc[t] = "sn_loop"
    /\ IF curr[t] >= SHUTDOWN_NOW
         THEN /\ pc' = [pc EXCEPT ![t] = AfterShutdownNow(t)]
              /\ UNCHANGED <<shutdown, curr>>
         ELSE /\ shutdown' = SHUTDOWN_NOW
              /\ pc' = [pc EXCEPT ![t] = "sn_wakeup"]
              /\ UNCHANGED curr
    /\ UNCHANGED <<shutdown_task, woken, wakeup_pending, rpc, rlocal,
                   reactor_alive, registered, inner, holder, lw>>

\* A faulty variant: the caller that lost the compare-and-swap issues a
\* wakeup too.
shutdown_now_wakes_on_loss(t) ==
    /\ UNCHANGED bvars
    /\ pc[t] = "sn_loop"
    /\ IF curr[t] >= SHUTDOWN_NOW
         THEN /\ pc' = [pc EXCEPT ![t] = AfterShutdownNow(t)]
              /\ UNCHANGED <<shutdown, curr>>
         ELSE IF shutdown = curr[t]
           THEN /\ shutdown' = SHUTDOWN_NOW
                /\ pc' = [pc EXCEPT ![t] = "sn_wakeup"]
                /\ UNCHANGED curr
           ELSE /\ curr' = [curr EXCEPT ![t] = shutdown]
                /\ pc' = [pc EXCEPT ![t] = "sn_wakeup"]
                /\ UNCHANGED shutdown
    /\ UNCHANGED <<shutdown_task, woken, wakeup_pending, rpc, rlocal,
                   reactor_alive, registered, inner, holder, lw>>

\* A faulty variant: the compare-and-swap installs SHUTDOWN_IDLE.
shutdown_now_cas_idle(t) ==
    /\ UNCHANGED bvars
    /\ pc[t] = "sn_loop"
    /\ IF curr[t] >= SHUTDOWN_NOW
         THEN /\ pc' = [pc EXCEPT ![t] = AfterShutdownNow(t)]
              /\ UNCHANGED <<shutdown, curr>>
         ELSE IF shutdown = curr[t]
           THEN /\ shutdown' = SHUTDOWN_IDLE
                /\ pc' = [pc EXCEPT ![t] = "sn_wakeup"]
                /\ UNCHANGED curr
           ELSE /\ curr' = [curr EXCEPT ![t] = shutdown]
                /\ UNCHANGED <<shutdown, pc>>
    /\ UNCHANGED <<shutdown_task, woken, wakeup_pending, rpc, rlocal,
                   reactor_alive, registered, inner, holder, lw>>

\* One iteration of the loop: return if curr >= SHUTDOWN_NOW, else
\* act = compare_and_swap(curr, SHUTDOWN_NOW); act == curr leads to the wakeup,
\* otherwise curr = act and the loop repeats.
shutdown_now_cas(t) ==
    /\ UNCHANGED bvars
    /\ pc[t] = "sn_loop"
    /\ IF curr[t] >= SHUTDOWN_NOW
         THEN /\ pc' = [pc EXCEPT ![t] = AfterShutdownNow(t)]
              /\ UNCHANGED <<shutdown, curr>>
         ELSE IF shutdown = curr[t]
           THEN /\ shutdown' = SHUTDOWN_NOW
                /\ pc' = [pc EXCEPT ![t] = "sn_wakeup"]
                /\ UNCHANGED curr
           ELSE /\ curr' = [curr EXCEPT ![t] = shutdown]
                /\ UNCHANGED <<shutdown, pc>>
    /\ UNCHANGED <<shutdown_task, woken, wakeup_pending, rpc, rlocal,
                   reactor_alive, registered, inner, holder, lw>>

\* self.handle.wakeup(); return.  Handle::wakeup sets the multiplexer's
\* interrupt readiness; concurrent requests coalesce.
shutdown_now_wakeup(t) ==
    /\ UNCHANGED bvars
    /\ pc[t] = "sn_wakeup"
    /\ wakeup_pending' = TRUE
    /\ pc' = [pc EXCEPT ![t] = AfterShutdownNow(t)]
    /\ UNCHANGED <<shutdown, shutdown_task, woken, rpc, rlocal,
                   reactor_alive, registered, inner, holder, curr, lw>>

\* ---- Inner::is_shutdown ---------------------------------------------------
\* Faulty variants: a comparison against the wrong constant, and >=.
is_shutdown_wrong_const == shutdown = SHUTDOWN_NOW

is_shutdown_ge == shutdown >= SHUTDOWN_NOW

is_shutdown == shutdown = SHUTDOWN

\* ---- Future for Shutdown: poll --------------------------------------------
\* A faulty variant: the waker is stored only while the slot is empty.
poll_register_once(w) ==
    /\ UNCHANGED bvars
    /\ pc[Owner] = "poll"
    /\ shutdown_task' = IF shutdown_task = NoWaker THEN w ELSE shutdown_task
    /\ lw' = w
    /\ pc' = [pc EXCEPT ![Owner] = "registered"]
    /\ UNCHANGED <<shutdown, woken, wakeup_pending, rpc, rlocal,
                   reactor_alive, registered, inner, holder, curr>>

\* self.inner.shared.shutdown_task.register(lw): replaces any prior waker.
poll_register(w) ==
    /\ UNCHANGED bvars
    /\ pc[Owner] = "poll"
    /\ shutdown_task' = w
    /\ lw' = w
    /\ pc' = [pc EXCEPT ![Owner] = "registered"]
    /\ UNCHANGED <<shutdown, woken, wakeup_pending, rpc, rlocal,
                   reactor_alive, registered, inner, holder, curr>>

\* if !self.inner.is_shutdown() { return Poll::Pending }  Poll::Ready(Ok(())).
\* Ready inside Drop's block_on ends Drop (the Shutdown value and its Inner are
\* destroyed); Ready to a holder of the Shutdown future leaves it in hand.
poll_is_shutdown ==
    /\ UNCHANGED bvars
    /\ pc[Owner] = "registered"
    /\ IF is_shutdown
         THEN IF holder = "block_on"
                THEN /\ pc' = [pc EXCEPT ![Owner] = "returned"]
                     /\ holder' = "released"
                ELSE /\ pc' = [pc EXCEPT ![Owner] = "ready"]
                     /\ UNCHANGED holder
         ELSE /\ pc' = [pc EXCEPT ![Owner] = "parked"]
              /\ UNCHANGED holder
    /\ UNCHANGED <<shutdown, shutdown_task, woken, wakeup_pending, rpc, rlocal,
                   reactor_alive, registered, inner, curr, lw>>

\* executor::block_on: a task that returned Pending is polled again once the
\* waker it passed has been woken.
unpark ==
    /\ UNCHANGED bvars
    /\ pc[Owner] = "parked"
    /\ lw \in woken
    /\ woken' = woken \ {lw}
    /\ pc' = [pc EXCEPT ![Owner] = "poll"]
    /\ UNCHANGED <<shutdown, shutdown_task, wakeup_pending, rpc, rlocal,
                   reactor_alive, registered, inner, holder, curr, lw>>

\* A poll nobody asked for: thread::park may return spuriously, and an
\* executor may poll a pending future again at any time.
repoll ==
    /\ UNCHANGED bvars
    /\ pc[Owner] \in {"parked", "ready"}
    /\ pc' = [pc EXCEPT ![Owner] = "poll"]
    /\ UNCHANGED <<shutdown, shutdown_task, woken, wakeup_pending, rpc, rlocal,
                   reactor_alive, registered, inner, holder, curr, lw>>

\* ---- the reactor thread: run ----------------------------------------------
\* A faulty variant: the load hoisted out of the loop, so an iteration tests
\* the value of an earlier load.
run_load_hoisted ==
    /\ UNCHANGED bvars
    /\ rpc = "load"
    /\ rpc' = "check"
    /\ UNCHANGED <<shutdown, shutdown_task, woken, wakeup_pending, rlocal,
                   reactor_alive, registered, inner, holder, pc, curr, lw>>

\* let shutdown = shared.shutdown.load(SeqCst);
run_load ==
    /\ UNCHANGED bvars
    /\ rpc = "load"
    /\ rlocal' = shutdown
    /\ rpc' = "check"
    /\ UNCHANGED <<shutdown, shutdown_task, woken, wakeup_pending,
                   reactor_alive, registered, inner, holder, pc, curr, lw>>

\* Faulty variants of the two break conditions: the immediate break also
\* gated on idleness, and the idle break left out.
ShouldBreakNowGated(s, idle) ==
    \/ s = SHUTDOWN_NOW /\ idle
    \/ s = SHUTDOWN_IDLE /\ idle

ShouldBreakNoIdle(s, idle) == s = SHUTDOWN_NOW

\* A faulty variant: the idle break taken without asking is_idle().
ShouldBreakIdleUngated(s, idle) ==
    \/ s = SHUTDOWN_NOW
    \/ s = SHUTDOWN_IDLE

\* if shutdown == SHUTDOWN_NOW { break }
\* if shutdown == SHUTDOWN_IDLE && reactor.is_idle() { break }
ShouldBreak(s, idle) ==
    \/ s = SHUTDOWN_NOW
    \/ s = SHUTDOWN_IDLE /\ idle

\* The two tests of one iteration: break, or enter reactor.turn(None).
run_check ==
    /\ UNCHANGED bvars
    /\ rpc = "check"
    /\ rpc' = IF ShouldBreak(rlocal, is_idle) THEN "drop" ELSE "turn"
    /\ UNCHANGED <<shutdown, shutdown_task, woken, wakeup_pending, rlocal,
                   reactor_alive, registered, inner, holder, pc, curr, lw>>

\* reactor.turn(None) returns Ok because of the force-interrupt, consuming it.
turn_wakeup ==
    /\ UNCHANGED bvars
    /\ rpc = "turn"
    /\ wakeup_pending
    /\ wakeup_pending' = FALSE
    /\ rpc' = "load"
    /\ UNCHANGED <<shutdown, shutdown_task, woken, rlocal,
                   reactor_alive, registered, inner, holder, pc, curr, lw>>

\* reactor.turn(None) returns Ok because a registered resource became ready.
turn_event ==
    /\ UNCHANGED bvars
    /\ rpc = "turn"
    /\ registered > 0
    /\ rpc' = "load"
    /\ UNCHANGED <<shutdown, shutdown_task, woken, wakeup_pending, rlocal,
                   reactor_alive, registered, inner, holder, pc, curr, lw>>

\* reactor.turn(None) returns Err: unwrap() panics, the thread unwinds (which
\* drops the Reactor) and ends without reaching the store or the wake.
turn_fail ==
    /\ UNCHANGED bvars
    /\ rpc = "turn"
    /\ rpc' = "panicked"
    /\ reactor_alive' = FALSE
    /\ registered' = 0
    /\ UNCHANGED <<shutdown, shutdown_task, woken, wakeup_pending, rlocal,
                   inner, holder, pc, curr, lw>>

\* A faulty variant: the Reactor is still alive when the store is made.
run_drop_reactor_skipped ==
    /\ UNCHANGED bvars
    /\ rpc = "drop"
    /\ rpc' = "store"
    /\ UNCHANGED <<shutdown, shutdown_task, woken, wakeup_pending, rlocal,
                   reactor_alive, registered, inner, holder, pc, curr, lw>>

\* drop(reactor): the multiplexer and all registrations are released.
run_drop_reactor ==
    /\ UNCHANGED bvars
    /\ rpc = "drop"
    /\ reactor_alive' = FALSE
    /\ registered' = 0
    /\ rpc' = "store"
    /\ UNCHANGED <<shutdown, shutdown_task, woken, wakeup_pending, rlocal,
                   inner, holder, pc, curr, lw>>

\* shared.shutdown.store(SHUTDOWN, SeqCst);
run_store ==
    /\ UNCHANGED bvars
    /\ rpc = "store"
    /\ shutdown' = SHUTDOWN
    /\ rpc' = "wake"
    /\ UNCHANGED <<shutdown_task, woken, wakeup_pending, rlocal,
                   reactor_alive, registered, inner, holder, pc, curr, lw>>

\* shared.shutdown_task.wake(): takes the registered waker, if any, and wakes it.
run_wake ==
    /\ UNCHANGED bvars
    /\ rpc = "wake"
    /\ IF shutdown_task = NoWaker
         THEN UNCHANGED <<shutdown_task, woken>>
         ELSE /\ woken' = woken \cup {shutdown_task}
              /\ shutdown_task' = NoWaker
    /\ rpc' = "done"
    /\ UNCHANGED <<shutdown, wakeup_pending, rlocal,
                   reactor_alive, registered, inner, holder, pc, curr, lw>>

\* ---- the idle-gated request of the shutdown contract; background.rs has no
\* such operation.  As the design describes it: compare-exchange Running -> ShutdownIdle, force-wakeup, and
\* the completion signal handed to the caller.
shutdown_on_idle_cas ==
    /\ UNCHANGED bvars
    /\ pc[Owner] = "live"
    /\ inner' = "None"
    /\ holder' = "future"
    /\ shutdown' = IF shutdown = RUNNING THEN SHUTDOWN_IDLE ELSE shutdown
    /\ pc' = [pc EXCEPT ![Owner] = "si_wakeup"]
    /\ UNCHANGED <<shutdown_task, woken, wakeup_pending, rpc, rlocal,
                   reactor_alive, registered, curr, lw>>

shutdown_on_idle_wakeup ==
    /\ UNCHANGED bvars
    /\ pc[Owner] = "si_wakeup"
    /\ wakeup_pending' = TRUE
    /\ pc' = [pc EXCEPT ![Owner] = "poll"]
    /\ UNCHANGED <<shutdown, shutdown_task, woken, rpc, rlocal,
                   reactor_alive, registered, inner, holder, curr, lw>>

\* Another thread with access to the Inner calls shutdown_now (&self).
extra_shutdown_now(t) ==
    /\ UNCHANGED bvars
    /\ t \in Extras
    /\ pc[t] = "idle"
    /\ holder \in {"background", "block_on", "future"}
    /\ pc' = [pc EXCEPT ![t] = "sn_load"]
    /\ UNCHANGED <<shutdown, shutdown_task, woken, wakeup_pending, rpc, rlocal,
                   reactor_alive, registered, inner, holder, curr, lw>>

\* ---- specifications -------------------------------------------------------
ReactorThread ==
    \/ run_load
    \/ run_check
    \/ turn_wakeup
    \/ turn_event
    \/ turn_fail
    \/ run_drop_reactor
    \/ run_store
    \/ run_wake

ShutdownNow(t) ==
    \/ shutdown_now_load(t)
    \/ shutdown_now_cas(t)
    \/ shutdown_now_wakeup(t)

Completion ==
    \/ \E w \in Wakers : poll_register(w)
    \/ poll_is_shutdown
    \/ unpark
    \/ repoll

Resources ==
    \/ register
    \/ deregister

\* The program as written: one owner of the Background handle.
Next ==
    \/ Resources
    \/ forget
    \/ drop_background
    \/ ShutdownNow(Owner)
    \/ Completion
    \/ ReactorThread

Spec == Init /\ [][Next]_vars

\* The program with the idle-gated request of the shutdown contract and with
\* further concurrent callers of shutdown_now.
NextExt ==
    \/ Resources
    \/ forget
    \/ drop_background
    \/ shutdown_on_idle_cas
    \/ shutdown_on_idle_wakeup
    \/ \E t \in Extras : extra_shutdown_now(t)
    \/ \E t \in Threads : ShutdownNow(t)
    \/ Completion
    \/ ReactorThread

SpecExt == Init /\ [][NextExt]_vars

\* The idle-gated request without the further callers.
NextIdle ==
    \/ Next
    \/ shutdown_on_idle_cas
    \/ shutdown_on_idle_wakeup

\* Scheduling: the reactor thread and the thread running Drop / awaiting the
\* completion signal keep running.  Nothing forces the environment: a handle
\* may be kept for ever, resources need not become ready, turn need not fail,
\* and nobody has to poll a second time unasked.
Fairness ==
    /\ WF_vars(run_load)
    /\ WF_vars(run_check)
    /\ WF_vars(turn_wakeup)
    /\ WF_vars(run_drop_reactor)
    /\ WF_vars(run_store)
    /\ WF_vars(run_wake)
    /\ WF_vars(ShutdownNow(Owner))
    /\ WF_vars(\E w \in Wakers : poll_register(w))
    /\ WF_vars(poll_is_shutdown)
    /\ WF_vars(unpark)

FairSpec == Init /\ [][Next]_vars /\ Fairness

FairSpecIdle ==
    Init /\ [][NextIdle]_vars /\ Fairness /\ WF_vars(shutdown_on_idle_wakeup)

\* ---- properties -----------------------------------------------------------
TypeOK ==
    /\ shutdown \in States
    /\ shutdown_task \in Wakers \cup {NoWaker}
    /\ woken \subseteq Wakers
    /\ wakeup_pending \in BOOLEAN
    /\ rpc \in {"load", "check", "turn", "drop", "store", "wake", "done", "panicked"}
    /\ rlocal \in States
    /\ reactor_alive \in BOOLEAN
    /\ registered \in 0..MaxRes
    /\ inner \in {"Some", "None"}
    /\ holder \in {"background", "block_on", "future", "forgotten", "released"}
    /\ lw \in Wakers \cup {NoWaker}

\* The order Running < {ShutdownIdle, ShutdownNow} < Shutdown.
Rank(s) == IF s = RUNNING THEN 0 ELSE IF s = SHUTDOWN THEN 2 ELSE 1

\* C1: no step moves the shutdown word to a smaller value under the order
\* Running < {ShutdownIdle, ShutdownNow} < Shutdown, and a word that equals
\* Shutdown stays Shutdown, whatever shutdown requests, polls and run-loop
\* steps interleave.
C1_Monotonic ==
    [][/\ Rank(shutdown') >= Rank(shutdown)
       /\ shutdown = SHUTDOWN => shutdown' = SHUTDOWN]_vars

\* The word is Shutdown while a caller of shutdown_now that loaded Running is
\* still about to make its compare-and-swap.
C1_Witness ==
    /\ shutdown = SHUTDOWN
    /\ \E t \in Threads : pc[t] = "sn_loop" /\ curr[t] = RUNNING

\* C2: when Drop of a non-forgotten Background has returned, the run loop has
\* exited (the thread is at or past the wake, so it can run no further turn),
\* the Reactor has been dropped and the word is Shutdown.
C2_DropAfterStop ==
    holder = "released" =>
        /\ rpc \in {"wake", "done"}
        /\ ~reactor_alive
        /\ shutdown = SHUTDOWN

\* Drop has returned while the reactor thread has stored Shutdown and not yet
\* called wake.
C2_Witness ==
    /\ holder = "released"
    /\ pc[Owner] = "returned"
    /\ rpc = "wake"

\* C3: every fair execution in which Drop of a non-forgotten Background starts
\* reaches the return of Drop.
C3_DropTerminates == (holder = "block_on") ~> (holder = "released")

\* What does hold: Drop returns unless a turn reported a fatal failure.
DropTerminatesUnlessTurnFails ==
    (holder = "block_on") ~> (holder = "released" \/ rpc = "panicked")

\* C4: the shutdown protocol cannot fail: once the reactor thread has
\* terminated, for whatever reason, the word is Shutdown.
C4_ShutdownTotal == rpc \in {"done", "panicked"} => shutdown = SHUTDOWN

\* C5: the word becomes Shutdown only by the reactor thread's store, made
\* after the run loop has exited and the Reactor has been dropped; no step of
\* a requester (shutdown_now, Drop, poll) makes it Shutdown, and it becomes
\* Shutdown at most once because it never leaves Shutdown.
C5_OnlyRunStoresShutdown ==
    [][/\ (shutdown # SHUTDOWN /\ shutdown' = SHUTDOWN) =>
             /\ rpc = "store"
             /\ rpc' = "wake"
             /\ ~reactor_alive
             /\ pc' = pc
       /\ shutdown = SHUTDOWN => (shutdown' = SHUTDOWN /\ rpc' \in {"wake", "done"})]_vars

\* The reactor thread has just stored Shutdown while a requester has made its
\* compare-and-swap and not yet its wakeup.
C5_Witness ==
    /\ shutdown = SHUTDOWN
    /\ rpc = "wake"
    /\ \E t \in Threads : pc[t] = "sn_wakeup"

\* C6: no wakeup of the completion signal is lost: once the reactor thread has
\* made its wake, an observer whose last poll returned Pending has been woken
\* through the waker it passed to that poll; a parked observer is never woken
\* through another waker; and a wake is only ever delivered with the word
\* already Shutdown, so the poll that follows it returns Ready.
C6_NoLostWakeup ==
    /\ (rpc = "done" /\ pc[Owner] = "parked") => lw \in woken
    /\ pc[Owner] = "parked" => woken \subseteq {lw}
    /\ woken # {} => shutdown = SHUTDOWN

\* The observer polled twice with different wakers, returned Pending, and the
\* reactor thread's wake reached the later waker.
C6_Witness ==
    /\ rpc = "done"
    /\ pc[Owner] = "parked"
    /\ lw \in woken
    /\ lw = 2

\* C7: a poll made with the word at Shutdown returns Ready, every time, and no
\* step of a poll changes the word.
C7_PollIdempotent ==
    [][/\ (shutdown = SHUTDOWN /\ pc[Owner] = "registered" /\ pc'[Owner] # "registered")
             => pc'[Owner] \in {"returned", "ready"}
       /\ (pc[Owner] \in {"poll", "registered", "ready"} /\ pc'[Owner] # pc[Owner])
             => shutdown' = shutdown]_vars

\* A holder of the completion signal has polled again after the reactor thread
\* finished, and got Ready again.
C7_Witness ==
    /\ pc[Owner] = "ready"
    /\ rpc = "done"
    /\ shutdown_task # NoWaker
    /\ woken # {}

\* C8: forget changes neither the word nor the force-interrupt nor the waker
\* slot; the Drop that follows returns at once without a shutdown request; and
\* once the handle is forgotten the word stays Running, no wakeup is issued and
\* the reactor thread never leaves its loop through a break.
C8_ForgetDetaches ==
    [][/\ (pc[Owner] = "live" /\ pc'[Owner] = "forgot") =>
             /\ shutdown' = shutdown
             /\ wakeup_pending' = wakeup_pending
             /\ shutdown_task' = shutdown_task
             /\ rpc' = rpc
       /\ pc[Owner] = "forgot" => pc'[Owner] \in {"forgot", "returned"}
       /\ (pc[Owner] = "forgot" \/ holder = "forgotten") =>
             /\ shutdown' = RUNNING
             /\ ~wakeup_pending'
             /\ rpc' \in {"load", "check", "turn", "panicked"}]_vars

\* The forgotten handle's Drop has returned and the reactor thread is inside
\* another turn.
C8_Witness ==
    /\ holder = "forgotten"
    /\ pc[Owner] = "returned"
    /\ rpc = "turn"
    /\ registered > 0

\* C9: Scenario 4.  With the word loaded as ShutdownNow the run loop breaks
\* whatever is registered; whenever the word is Shutdown the Reactor has been
\* dropped and no registration is left; and, in the scenario (no turn reports
\* a fatal multiplexer failure), a Drop begun with a resource registered
\* returns, that is, the completion signal resolves.
C9_NowBypassesIdle ==
    /\ [][/\ (rpc = "check" /\ rlocal = SHUTDOWN_NOW /\ rpc' # rpc) => rpc' = "drop"
          /\ shutdown' = SHUTDOWN => (~reactor_alive' /\ registered' = 0)]_vars
    /\ (holder = "block_on" /\ registered > 0)
          ~> (holder = "released" \/ rpc = "panicked")

\* The run loop has broken on ShutdownNow with a resource still registered,
\* while Drop waits for the completion signal.
C9_Witness ==
    /\ rpc = "drop"
    /\ rlocal = SHUTDOWN_NOW
    /\ registered > 0
    /\ pc[Owner] = "parked"

C17_Honoring ==
    /\ shutdown >= SHUTDOWN_NOW
    /\ rpc # "turn"
    /\ ~(rpc = "check" /\ rlocal # SHUTDOWN_NOW)

\* C17: once the word is ShutdownNow, the reactor thread begins at most one
\* further turn, the one it committed to by a load made before the request;
\* when that turn is over (or if there was none) it never begins a turn again,
\* and with ShutdownNow loaded it breaks.
C17_BoundedResponse ==
    [][/\ C17_Honoring => (C17_Honoring' /\ rpc' # "turn")
       /\ (rpc = "check" /\ rpc' = "turn" /\ shutdown >= SHUTDOWN_NOW)
             => rlocal < SHUTDOWN_NOW]_vars

\* The one further turn: the request and its wakeup are complete while the
\* thread, having loaded Running, is about to enter a turn.
C17_Witness ==
    /\ shutdown = SHUTDOWN_NOW
    /\ rpc = "check"
    /\ rlocal = RUNNING
    /\ wakeup_pending
    /\ pc[Owner] = "parked"

\* C18: the run loop breaks only with ShutdownNow loaded, or with ShutdownIdle
\* loaded in an iteration where is_idle() is true, never with Running loaded;
\* and while the word is ShutdownIdle with a resource registered and the
\* thread inside its loop, no step breaks the loop or makes the word Shutdown.
C18_IdleGate ==
    [][/\ (rpc = "check" /\ rpc' = "drop") =>
             \/ rlocal = SHUTDOWN_NOW
             \/ rlocal = SHUTDOWN_IDLE /\ registered = 0
       /\ (shutdown = SHUTDOWN_IDLE /\ registered > 0 /\ rpc \in {"load", "check", "turn"}) =>
             /\ rpc' \in {"load", "check", "turn", "panicked"}
             /\ shutdown' # SHUTDOWN]_vars

\* The thread loaded ShutdownIdle, found a resource registered and went into
\* another turn.
C18_Witness ==
    /\ shutdown = SHUTDOWN_IDLE
    /\ rlocal = SHUTDOWN_IDLE
    /\ registered > 0
    /\ rpc = "turn"

\* C19: a shutdown_now step taken with curr at or beyond ShutdownNow changes
\* neither the word nor the force-interrupt; a caller reaches the wakeup only
\* by the compare-and-swap that moves the word from below ShutdownNow to
\* ShutdownNow, which at most one caller ever makes (no caller is at the
\* wakeup while the word is below ShutdownNow, at most one is at any time);
\* and a caller leaves shutdown_now only with the word at or beyond
\* ShutdownNow.
C19_OneWinner ==
    /\ [][\A t \in Threads :
            /\ (pc[t] = "sn_loop" /\ curr[t] >= SHUTDOWN_NOW /\ pc'[t] # pc[t]) =>
                  (shutdown' = shutdown /\ wakeup_pending' = wakeup_pending)
            /\ (pc[t] # "sn_wakeup" /\ pc'[t] = "sn_wakeup") =>
                  (shutdown < SHUTDOWN_NOW /\ shutdown' = SHUTDOWN_NOW)
            /\ (pc[t] \in {"sn_loop", "sn_wakeup"} /\ pc'[t] = AfterShutdownNow(t)) =>
                  shutdown' >= SHUTDOWN_NOW]_vars
    /\ [](/\ Cardinality({t \in Threads : pc[t] = "sn_wakeup"}) <= 1
          /\ shutdown < SHUTDOWN_NOW => \A t \in Threads : pc[t] # "sn_wakeup")

\* Two callers raced from Running: one won the compare-and-swap and is about
\* to issue the wakeup, the other is about to lose it.
C19_Witness ==
    \E t, u \in Threads :
        /\ t # u
        /\ pc[t] = "sn_wakeup"
        /\ pc[u] = "sn_loop"
        /\ curr[u] = RUNNING
        /\ shutdown = SHUTDOWN_NOW

\* C20: in the code as written the word is only ever Running, ShutdownNow or
\* Shutdown, the run loop never loads ShutdownIdle, and it leaves its loop
\* only through the ShutdownNow break.
C20_NoShutdownIdle ==
    /\ shutdown \in {RUNNING, SHUTDOWN_NOW, SHUTDOWN}
    /\ rlocal \in {RUNNING, SHUTDOWN_NOW}
    /\ rpc \in {"drop", "store", "wake", "done"} => rlocal = SHUTDOWN_NOW

\* The reactor was idle when the loop broke, and it broke on ShutdownNow.
C20_Witness ==
    /\ rpc = "drop"
    /\ is_idle
    /\ rlocal = SHUTDOWN_NOW
    /\ shutdown = SHUTDOWN_NOW

\* ---------------------------------------------------------------------------
\* The readiness bridge of one registered socket, and UnixDatagram's
\* poll_recv_from / poll_send_to on top of it (uds/datagram.rs).
\*
\* A poll of the wrapper is three calls, and other threads (the reactor's
\* turn, the peer) run between them: *_ready is the readiness poll, *_recv /
\* *_send the system call with the is_wouldblock test, *_clear the
\* clear_*_ready call of the would-block branch.
\* ---------------------------------------------------------------------------

\* What recv_from can return in the socket's current state: data if there is
\* any, end of stream if the peer closed, would-block if neither; a genuine
\* error at any time.
recv_from == (IF wire # <<>> THEN {"Ok"}
              ELSE IF peer_closed THEN {"Eof"} ELSE {"WouldBlock"}) \cup {"Err"}

\* What send_to can return: success while the send buffer has room,
\* would-block when it is full; a genuine error at any time.
send_to == (IF outfree > 0 THEN {"Ok"} ELSE {"WouldBlock"}) \cup {"Err"}

\* poll_<direction>_ready(waker): with the sticky flag unset it stores the
\* waker, replacing any earlier one, and reports suspended; with the flag set
\* it reports ready and consumes nothing.
poll_ready(d, t) ==
    /\ ready' = ready
    /\ bwaker' = IF ready[d] THEN bwaker ELSE [bwaker EXCEPT ![d] = t]

\* clear_<direction>_ready(waker): unsets the sticky flag and registers the
\* waker again.
clear_ready(d, t) ==
    /\ ready' = [ready EXCEPT ![d] = FALSE]
    /\ bwaker' = [bwaker EXCEPT ![d] = t]

\* The task may enter the wrapper: it is not inside a poll, and if it is
\* suspended it has been woken and retries the operation it was suspended on.
may_poll(t, d) ==
    \/ tpc[t] = "idle"
    \/ tpc[t] = "pending" /\ tdir[t] = d /\ t \in notified

\* Variant: every error counts as would-block.
is_wouldblock_any_err(r) == IF r \in {"Ok", "Eof"} THEN FALSE ELSE TRUE

is_wouldblock(r) == IF r \in {"Ok", "Eof"} THEN FALSE ELSE r = "WouldBlock"

\* ready!(self.io.poll_read_ready(lw)?): an error of the bridge is returned,
\* suspended is returned as Pending, ready goes on to the system call.
poll_recv_from_ready(t) ==
    /\ UNCHANGED bgvars
    /\ may_poll(t, "read")
    /\ tdir' = [tdir EXCEPT ![t] = "read"]
    /\ notified' = notified \ {t}
    /\ \E ok \in BOOLEAN :
         IF ok
         THEN /\ poll_ready("read", t)
              /\ tpc' = [tpc EXCEPT ![t] = IF ready["read"] THEN "attempt" ELSE "pending"]
              /\ tres' = [tres EXCEPT ![t] = IF ready["read"] THEN "none" ELSE "Pending"]
         ELSE /\ UNCHANGED <<ready, bwaker>>
              /\ tpc' = [tpc EXCEPT ![t] = "idle"]
              /\ tres' = [tres EXCEPT ![t] = "BridgeErr"]
    /\ sysres' = [sysres EXCEPT ![t] = "none"]
    /\ UNCHANGED <<events, got, wire, written, peer_closed, outfree>>

\* Variant: a receive that succeeds also unsets the read flag.
poll_recv_from_recv_clears(t) ==
    /\ UNCHANGED bgvars
    /\ tpc[t] = "attempt"
    /\ tdir[t] = "read"
    /\ \E r \in recv_from :
         /\ sysres' = [sysres EXCEPT ![t] = r]
         /\ IF is_wouldblock(r)
            THEN /\ tpc' = [tpc EXCEPT ![t] = "wb"]
                 /\ UNCHANGED <<tres, ready>>
            ELSE /\ tpc' = [tpc EXCEPT ![t] = "idle"]
                 /\ tres' = [tres EXCEPT ![t] = r]
                 /\ ready' = [ready EXCEPT !["read"] = FALSE]
         /\ IF r = "Ok"
            THEN \E k \in 1..Len(wire) :
                   /\ got' = got \o SubSeq(wire, 1, k)
                   /\ wire' = SubSeq(wire, k + 1, Len(wire))
            ELSE UNCHANGED <<got, wire>>
    /\ UNCHANGED <<bwaker, events, notified, tdir, written, peer_closed, outfree>>

\* let r = recv_from(buf); if is_wouldblock(&r) { ... } else { Poll::Ready(r) }:
\* a result that is not would-block is returned as it is; a receive that
\* succeeds takes some of the bytes waiting, oldest first.
poll_recv_from_recv(t) ==
    /\ UNCHANGED bgvars
    /\ tpc[t] = "attempt"
    /\ tdir[t] = "read"
    /\ \E r \in recv_from :
         /\ sysres' = [sysres EXCEPT ![t] = r]
         /\ IF is_wouldblock(r)
            THEN /\ tpc' = [tpc EXCEPT ![t] = "wb"]
                 /\ UNCHANGED tres
            ELSE /\ tpc' = [tpc EXCEPT ![t] = "idle"]
                 /\ tres' = [tres EXCEPT ![t] = r]
         /\ IF r = "Ok"
            THEN \E k \in 1..Len(wire) :
                   /\ got' = got \o SubSeq(wire, 1, k)
                   /\ wire' = SubSeq(wire, k + 1, Len(wire))
            ELSE UNCHANGED <<got, wire>>
    /\ UNCHANGED <<ready, bwaker, events, notified, tdir, written, peer_closed, outfree>>

\* Variant: the would-block branch of the receive clears write readiness.
poll_recv_from_clear_write(t) ==
    /\ UNCHANGED bgvars
    /\ tpc[t] = "wb"
    /\ tdir[t] = "read"
    /\ \E ok \in BOOLEAN :
         IF ok
         THEN /\ clear_ready("write", t)
              /\ tpc' = [tpc EXCEPT ![t] = "pending"]
              /\ tres' = [tres EXCEPT ![t] = "Pending"]
         ELSE /\ UNCHANGED <<ready, bwaker>>
              /\ tpc' = [tpc EXCEPT ![t] = "idle"]
              /\ tres' = [tres EXCEPT ![t] = "BridgeErr"]
    /\ UNCHANGED <<events, notified, tdir, sysres, got, wire, written, peer_closed, outfree>>

\* self.io.clear_read_ready(lw)?; Poll::Pending: the flag is cleared and the
\* waker registered, then Pending is returned; an error of the bridge is
\* returned instead of Pending.
poll_recv_from_clear(t) ==
    /\ UNCHANGED bgvars
    /\ tpc[t] = "wb"
    /\ tdir[t] = "read"
    /\ \E ok \in BOOLEAN :
         IF ok
         THEN /\ clear_ready("read", t)
              /\ tpc' = [tpc EXCEPT ![t] = "pending"]
              /\ tres' = [tres EXCEPT ![t] = "Pending"]
         ELSE /\ UNCHANGED <<ready, bwaker>>
              /\ tpc' = [tpc EXCEPT ![t] = "idle"]
              /\ tres' = [tres EXCEPT ![t] = "BridgeErr"]
    /\ UNCHANGED <<events, notified, tdir, sysres, got, wire, written, peer_closed, outfree>>

\* ready!(self.io.poll_write_ready(lw)?)
poll_send_to_ready(t) ==
    /\ UNCHANGED bgvars
    /\ may_poll(t, "write")
    /\ tdir' = [tdir EXCEPT ![t] = "write"]
    /\ notified' = notified \ {t}
    /\ \E ok \in BOOLEAN :
         IF ok
         THEN /\ poll_ready("write", t)
              /\ tpc' = [tpc EXCEPT ![t] = IF ready["write"] THEN "attempt" ELSE "pending"]
              /\ tres' = [tres EXCEPT ![t] = IF ready["write"] THEN "none" ELSE "Pending"]
         ELSE /\ UNCHANGED <<ready, bwaker>>
              /\ tpc' = [tpc EXCEPT ![t] = "idle"]
              /\ tres' = [tres EXCEPT ![t] = "BridgeErr"]
    /\ sysres' = [sysres EXCEPT ![t] = "none"]
    /\ UNCHANGED <<events, got, wire, written, peer_closed, outfree>>

\* let r = send_to(buf, path); if is_wouldblock(&r) { ... } else { Poll::Ready(r) }:
\* a send that succeeds takes one place of the send buffer.
poll_send_to_send(t) ==
    /\ UNCHANGED bgvars
    /\ tpc[t] = "attempt"
    /\ tdir[t] = "write"
    /\ \E r \in send_to :
         /\ sysres' = [sysres EXCEPT ![t] = r]
         /\ IF is_wouldblock(r)
            THEN /\ tpc' = [tpc EXCEPT ![t] = "wb"]
                 /\ UNCHANGED tres
            ELSE /\ tpc' = [tpc EXCEPT ![t] = "idle"]
                 /\ tres' = [tres EXCEPT ![t] = r]
         /\ outfree' = IF r = "Ok" THEN outfree - 1 ELSE outfree
    /\ UNCHANGED <<ready, bwaker, events, notified, tdir, got, wire, written, peer_closed>>

\* self.io.clear_write_ready(lw)?; Poll::Pending
poll_send_to_clear(t) ==
    /\ UNCHANGED bgvars
    /\ tpc[t] = "wb"
    /\ tdir[t] = "write"
    /\ \E ok \in BOOLEAN :
         IF ok
         THEN /\ clear_ready("write", t)
              /\ tpc' = [tpc EXCEPT ![t] = "pending"]
              /\ tres' = [tres EXCEPT ![t] = "Pending"]
         ELSE /\ UNCHANGED <<ready, bwaker>>
              /\ tpc' = [tpc EXCEPT ![t] = "idle"]
              /\ tres' = [tres EXCEPT ![t] = "BridgeErr"]
    /\ UNCHANGED <<events, notified, tdir, sysres, got, wire, written, peer_closed, outfree>>

\* The peer writes the next byte of its message; the kernel raises a read
\* notification for the socket.
peer_write ==
    /\ UNCHANGED bgvars
    /\ written < MsgLen
    /\ ~peer_closed
    /\ written' = written + 1
    /\ wire' = Append(wire, written + 1)
    /\ events' = events \cup {"read"}
    /\ UNCHANGED <<ready, bwaker, notified, tpc, tdir, sysres, tres, got, peer_closed, outfree>>

\* The peer closes its end; the kernel raises a read notification (the end
\* of the stream is read readiness).
peer_close ==
    /\ UNCHANGED bgvars
    /\ ~peer_closed
    /\ peer_closed' = TRUE
    /\ events' = events \cup {"read"}
    /\ UNCHANGED <<ready, bwaker, notified, tpc, tdir, sysres, tres, got, wire, written, outfree>>

\* The peer takes a datagram out of the send buffer; a buffer that was full
\* becomes writable and the kernel raises a write notification.
peer_drain ==
    /\ UNCHANGED bgvars
    /\ outfree < MaxOut
    /\ outfree' = outfree + 1
    /\ events' = IF outfree = 0 THEN events \cup {"write"} ELSE events
    /\ UNCHANGED <<ready, bwaker, notified, tpc, tdir, sysres, tres, got, wire, written, peer_closed>>

\* Variant: turn leaves the waker in its slot.
turn_deliver_keeps_waker(d) ==
    /\ UNCHANGED bgvars
    /\ d \in events
    /\ events' = events \ {d}
    /\ ready' = [ready EXCEPT ![d] = TRUE]
    /\ notified' = IF bwaker[d] # NoWaker THEN notified \cup {bwaker[d]} ELSE notified
    /\ UNCHANGED <<bwaker, tpc, tdir, sysres, tres, got, wire, written, peer_closed, outfree>>

\* turn, for one event: sets the direction's sticky flag and wakes the
\* direction's waker, consuming the waker and not the flag.
turn_deliver(d) ==
    /\ UNCHANGED bgvars
    /\ d \in events
    /\ events' = events \ {d}
    /\ ready' = [ready EXCEPT ![d] = TRUE]
    /\ notified' = IF bwaker[d] # NoWaker THEN notified \cup {bwaker[d]} ELSE notified
    /\ bwaker' = [bwaker EXCEPT ![d] = NoWaker]
    /\ UNCHANGED <<tpc, tdir, sysres, tres, got, wire, written, peer_closed, outfree>>

NextBridge ==
    \/ \E t \in Tasks : poll_recv_from_ready(t)
    \/ \E t \in Tasks : poll_recv_from_recv(t)
    \/ \E t \in Tasks : poll_recv_from_clear(t)
    \/ \E t \in Tasks : poll_send_to_ready(t)
    \/ \E t \in Tasks : poll_send_to_send(t)
    \/ \E t \in Tasks : poll_send_to_clear(t)
    \/ peer_write
    \/ peer_close
    \/ peer_drain
    \/ \E d \in Dirs : turn_deliver(d)

SpecBridge == Init /\ [][NextBridge]_vars

TypeOKBridge ==
    /\ ready \in [Dirs -> BOOLEAN]
    /\ bwaker \in [Dirs -> Tasks \cup {NoWaker}]
    /\ events \subseteq Dirs
    /\ notified \subseteq Tasks
    /\ tpc \in [Tasks -> {"idle", "attempt", "wb", "pending"}]
    /\ tdir \in [Tasks -> Dirs \cup {"none"}]
    /\ sysres \in [Tasks -> {"none", "Ok", "Eof", "WouldBlock", "Err"}]
    /\ tres \in [Tasks -> {"none", "Pending", "Ok", "Eof", "Err", "BridgeErr"}]
    /\ written \in 0..MsgLen
    /\ got \o wire = [i \in 1..written |-> i]
    /\ peer_closed \in BOOLEAN
    /\ outfree \in 0..MaxOut

\* The kernel reports the socket ready in direction d.
KernelReady(d) == IF d = "read" THEN wire # <<>> \/ peer_closed ELSE outfree > 0

\* C11: a task that follows poll_ready, attempt, clear_ready on would-block
\* is never left suspended while the socket is ready: whenever it is
\* suspended with its waker in the direction's slot (no later waiter replaced
\* it) and the kernel reports the socket ready, the notification that will
\* wake it is still to be delivered by turn. This is to hold in every
\* interleaving of the task with turn and the peer, a notification delivered
\* between the failed attempt and clear_ready included.
C11_NoMissedWakeup ==
    \A t \in Tasks : \A d \in Dirs :
        (tpc[t] = "pending" /\ tdir[t] = d /\ bwaker[d] = t /\ KernelReady(d)) =>
            d \in events

\* C12: each direction holds at most one waker; a step that delivers a
\* notification wakes exactly the waker in that direction's slot (the most
\* recently registered one) and no other task, and empties the slot, so the
\* same registration is not woken again by a later notification; no step
\* other than a delivery wakes a task; and a task that has been woken and has
\* not polled since is in no slot.
C12_SingleWaker ==
    /\ [](bwaker \in [Dirs -> Tasks \cup {NoWaker}])
    /\ [](\A d \in Dirs : bwaker[d] \notin notified)
    /\ [][/\ \A d \in Dirs :
                (d \in events /\ d \notin events') =>
                    /\ notified' = notified \cup ({bwaker[d]} \ {NoWaker})
                    /\ bwaker'[d] = NoWaker
          /\ ~(notified' \subseteq notified) =>
                \E d \in Dirs : d \in events /\ d \notin events']_vars

\* A waker registered by clear_ready after a would-block has been woken,
\* while an earlier waiter of the same direction, whose waker it replaced,
\* has not.
C12_Witness ==
    \E t, u \in Tasks :
        /\ t # u
        /\ tpc[t] = "pending" /\ sysres[t] = "WouldBlock" /\ t \in notified
        /\ tpc[u] = "pending" /\ tdir[u] = tdir[t] /\ u \notin notified

\* What poll_recv_from / poll_send_to do with the result of the system call,
\* and that no system call is made when the readiness poll does not report
\* ready.
WrapperPassesResults ==
    \A t \in Tasks :
        /\ (tpc[t] = "attempt" /\ tpc'[t] # "attempt") =>
              IF sysres'[t] = "WouldBlock"
              THEN tpc'[t] = "wb"
              ELSE tpc'[t] = "idle" /\ tres'[t] = sysres'[t]
        /\ (tpc[t] # "attempt") =>
              /\ sysres'[t] \in {"none", sysres[t]}
              /\ (Len(wire') < Len(wire) \/ outfree' < outfree) =>
                    \E u \in Tasks : tpc[u] = "attempt" /\ tpc'[u] # "attempt"

\* C13 as claimed: a would-block result of the system call is always turned
\* into Pending after clear_<direction>_ready has cleared the flag and
\* registered the waker; every other result is returned as Ready unchanged;
\* when the readiness poll does not report ready no system call is made; and
\* no poll returns would-block.
C13_WouldBlockBecomesPending ==
    /\ [](\A t \in Tasks : tres[t] # "WouldBlock")
    /\ [][/\ WrapperPassesResults
          /\ \A t \in Tasks :
                (tpc[t] = "wb" /\ tpc'[t] # "wb") =>
                    /\ tpc'[t] = "pending"
                    /\ tres'[t] = "Pending"
                    /\ ~ready'[tdir[t]]
                    /\ bwaker'[tdir[t]] = t]_vars

\* C13 amended: a would-block result of the system call is never returned;
\* after it clear_<direction>_ready is called and the poll returns Pending
\* with the flag cleared and the waker registered, or, when
\* clear_<direction>_ready itself fails, returns that error; every other
\* result is returned as Ready unchanged; when the readiness poll does not
\* report ready no system call is made.
C13_WouldBlockNeverSurfaces ==
    /\ [](\A t \in Tasks : tres[t] # "WouldBlock")
    /\ [][/\ WrapperPassesResults
          /\ \A t \in Tasks :
                (tpc[t] = "wb" /\ tpc'[t] # "wb") =>
                    \/ /\ tpc'[t] = "pending"
                       /\ tres'[t] = "Pending"
                       /\ ~ready'[tdir[t]]
                       /\ bwaker'[tdir[t]] = t
                    \/ /\ tpc'[t] = "idle"
                       /\ tres'[t] = "BridgeErr"]_vars

\* A receive met would-block and clear_read_ready failed: the poll returned
\* the error of the bridge.
C13_Witness ==
    \E t \in Tasks :
        /\ tpc[t] = "idle"
        /\ tdir[t] = "read"
        /\ sysres[t] = "WouldBlock"
        /\ tres[t] = "BridgeErr"

\* C14: a system call that returns anything but would-block leaves both
\* sticky flags as they were; a poll reports suspended only when its
\* direction's flag is unset, so after such a call the next poll of the
\* direction reports ready with no new notification; and a flag is unset only
\* by the clear_ready of an operation of that same direction whose system
\* call returned would-block (a receive never unsets the write flag, a send
\* never the read flag).
C14_StickyDirectionLocal ==
    [][/\ \A t \in Tasks :
             /\ (tpc[t] = "attempt" /\ tpc'[t] = "idle") => ready' = ready
             /\ (/\ tpc[t] \in {"idle", "pending"}
                 /\ tpc[t] = "pending" => (t \in notified /\ t \notin notified')
                 /\ tpc'[t] = "pending"
                 /\ tres'[t] = "Pending") => ~ready[tdir'[t]]
       /\ \A d \in Dirs :
             (ready[d] /\ ~ready'[d]) =>
                 \E t \in Tasks :
                     /\ tpc[t] = "wb" /\ tpc'[t] = "pending"
                     /\ tdir[t] = d
                     /\ sysres[t] = "WouldBlock"]_vars

\* A receive has just succeeded and taken everything there was; no
\* notification is outstanding and the read flag is still set.
C14_Witness ==
    \E t \in Tasks :
        /\ tpc[t] = "idle" /\ tdir[t] = "read" /\ tres[t] = "Ok"
        /\ wire = <<>> /\ ~peer_closed
        /\ "read" \notin events
        /\ ready["read"]

\* C15: a poll that suspends leaves the task's waker in the slot of its
\* direction; a task is woken only by a step in which turn delivers a
\* notification of the direction the task is suspended on, taken from the
\* slot where the task registered; and a read notification is raised only by
\* the peer, when it writes (or closes its end). So no task suspended on a
\* read is woken unless turn has observed, since the task registered, a read
\* notification that the peer caused.
C15_NoSpuriousWake ==
    [][/\ \A t \in Tasks :
             /\ (tpc[t] # "pending" /\ tpc'[t] = "pending") => bwaker'[tdir'[t]] = t
             /\ (t \in notified' /\ t \notin notified) =>
                   /\ tpc[t] = "pending"
                   /\ bwaker[tdir[t]] = t
                   /\ tdir[t] \in events
                   /\ tdir[t] \notin events'
       /\ ("read" \in events' /\ "read" \notin events) =>
             \/ written' = written + 1
             \/ peer_closed' /\ ~peer_closed]_vars

\* Scenario 2: a read of the socket with no data suspended at the readiness
\* poll; the peer then wrote, turn delivered the notification and the task
\* has been woken.
C15_Witness ==
    \E t \in Tasks :
        /\ tpc[t] = "pending" /\ tdir[t] = "read" /\ sysres[t] = "none"
        /\ t \in notified
        /\ ready["read"]
        /\ written = 1 /\ wire # <<>> /\ ~peer_closed

\* The task that reads the socket until the end of the stream, as the tests'
\* readers do (tests/uds.rs).
Reader == 1

\* The reactor thread keeps turning, the peer writes its message and closes,
\* and the reader goes on: it polls again when it is woken or has received
\* something, and finishes a poll it has begun.
FairnessBridge ==
    /\ \A d \in Dirs : WF_vars(turn_deliver(d))
    /\ WF_vars(peer_write)
    /\ WF_vars(peer_close)
    /\ WF_vars(poll_recv_from_ready(Reader))
    /\ WF_vars(poll_recv_from_recv(Reader))
    /\ WF_vars(poll_recv_from_clear(Reader))

FairSpecBridge == SpecBridge /\ FairnessBridge

\* The reader is the only task that reads the socket, it does nothing else,
\* and neither the bridge nor the socket reports an error to it.
ReaderAlone ==
    /\ \A t \in Tasks \ {Reader} : tdir[t] # "read"
    /\ tdir[Reader] # "write"
    /\ tres[Reader] \notin {"Err", "BridgeErr"}

\* C16: when the peer writes a sequence of bytes and closes, the reader's
\* reads eventually have yielded exactly those bytes, in order, and then the
\* end of the stream, whether the peer wrote before the reader's first poll
\* or after the reader suspended.
C16_EndToEnd ==
    []ReaderAlone =>
        <>(/\ peer_closed
           /\ got = [i \in 1..written |-> i]
           /\ tres[Reader] = "Eof")

====
